---------------------------- MODULE Spec2Model ----------------------------
(***************************************************************************)
(* The mtime-based etag scheme of vdirsyncer/utils/__init__.py:            *)
(* get_etag_from_file (token derivation) and get_etag_from_fileobject      *)
(* (token capture on a freshly written temporary file, before it is moved  *)
(* to its final path).                                                     *)
(*                                                                         *)
(* Numbers.  TLC's integers are 32 bits wide, a nanosecond count since the *)
(* epoch is about 2^61.  An integer is therefore kept as sign and          *)
(* magnitude in two limbs of base 10^9, <<hi, lo>> = hi * 10^9 + lo, and a *)
(* Python float (an IEEE double) as sign, integer part in the same limbs   *)
(* and a dyadic fraction fnum / 2^q.  All arithmetic on them is exact.     *)
(***************************************************************************)
EXTENDS Integers, Sequences, FiniteSets, TLC

\* Nanoseconds per second: os.stat's st_mtime_ns is sec * 10^9 + nsec.
NsPerSec == 10^9

\* '{:.9f}': nine digits after the decimal point.
FracDigits == 9

\* Significant bits of a Python float (IEEE double): '{:.9f}'.format(int)
\* first converts the int to a float.
MantissaBits == 53

-----------------------------------------------------------------------------
(* Two-limb naturals *)

\* Half of hi * 10^9 + lo, rounded down.
Half(p) == <<p[1] \div 2, (p[2] + (p[1] % 2) * NsPerSec) \div 2>>

\* Number of bits of the natural p (0 for 0).
RECURSIVE BitLen(_)
BitLen(p) == IF p = <<0, 0>> THEN 0 ELSE 1 + BitLen(Half(p))

\* p + 1.
Succ(p) == IF p[2] + 1 = NsPerSec THEN <<p[1] + 1, 0>> ELSE <<p[1], p[2] + 1>>

\* The limbs of a natural below 2^31.
Limbs(k) == <<k \div NsPerSec, k % NsPerSec>>

-----------------------------------------------------------------------------
(* Python values *)

\* A Python int.
PyInt(neg, mag) == [kind |-> "int", neg |-> neg, mag |-> mag]

\* A Python float: (-1)^neg * (ip + fnum / 2^q), 0 <= fnum < 2^q.
PyFloat(neg, ip, fnum, q) ==
    [kind |-> "float", neg |-> neg, ip |-> ip, fnum |-> fnum, q |-> q]

\* A kernel timestamp: tv_sec (possibly negative) and 0 <= tv_nsec < 10^9.
Timespec(sec, nsec) == [sec |-> sec, nsec |-> nsec]

\* |sec + nsec / 10^9| as whole seconds and nanoseconds.
AbsTime(t) ==
    IF t.sec >= 0 THEN <<t.sec, t.nsec>>
    ELSE IF t.nsec = 0 THEN <<-t.sec, 0>>
    ELSE <<-t.sec - 1, NsPerSec - t.nsec>>

IsNegative(t) == t.sec < 0

\* os.stat(...).st_mtime_ns: the int sec * 10^9 + nsec.
StMtimeNs(t) == PyInt(IsNegative(t), AbsTime(t))

\* x * 2^k / 5^9 as <<integer part, remainder over 5^9>>, for x < 10^9.
RECURSIVE ScaleUp(_, _)
ScaleUp(x, k) ==
    IF k = 0 THEN <<x \div 5^9, x % 5^9>>
    ELSE LET p == ScaleUp(x, k - 1)
         IN  <<2 * p[1] + (2 * p[2]) \div 5^9, (2 * p[2]) % 5^9>>

\* os.stat(...).st_mtime: the float nearest to sec + nsec / 10^9.  With b
\* bits of whole seconds the fraction has q = 53 - b bits, and
\* fnum = round(nsec * 2^q / 10^9) = round(nsec * 2^(q-9) / 5^9); 5^9 is odd,
\* so no tie arises.  A fraction rounding up to 1 carries into the seconds;
\* a zero fraction is kept as 0 / 2^0, so equal floats are equal records.
StMtime(t) ==
    LET a    == AbsTime(t)
        q    == MantissaBits - BitLen(Limbs(a[1]))
        p    == ScaleUp(a[2], q - 9)
        fnum == IF 2 * p[2] < 5^9 THEN p[1] ELSE p[1] + 1
    IN  IF a[2] = 0 \/ fnum = 0 THEN PyFloat(IsNegative(t), Limbs(a[1]), 0, 0)
        ELSE IF fnum = 2^q THEN PyFloat(IsNegative(t), Limbs(a[1] + 1), 0, 0)
        ELSE PyFloat(IsNegative(t), Limbs(a[1]), fnum, q)

-----------------------------------------------------------------------------
(* '{:.9f}'.format(mtime) *)

\* float(n) for a Python int n: n rounded to 53 significant bits, ties to
\* even.  The unit in the last place u = 2^(bits - 53) is at most 2^8 for
\* |n| < 2^61; u divides 10^9 = 2^9 * 5^9 and 10^9 / u is even, so the
\* remainder and the parity of the quotient are those of the low limb.
IntToFloat(n) ==
    LET u    == 2^(IF BitLen(n.mag) > MantissaBits
                   THEN BitLen(n.mag) - MantissaBits ELSE 0)
        lo   == n.mag[2]
        r    == lo % u
        down == lo - r
        m    == IF 2 * r < u \/ (2 * r = u /\ (lo \div u) % 2 = 0)
                THEN down ELSE down + u
    IN  IF m = NsPerSec THEN PyFloat(n.neg, <<n.mag[1] + 1, 0>>, 0, 0)
        ELSE PyFloat(n.neg, <<n.mag[1], m>>, 0, 0)

DigitChar(d) == <<"0", "1", "2", "3", "4", "5", "6", "7", "8", "9">>[d + 1]

\* The decimal digits of a natural below 2^31, without leading zeros.
RECURSIVE Digits(_)
Digits(k) ==
    IF k < 10 THEN <<DigitChar(k)>>
    ELSE Append(Digits(k \div 10), DigitChar(k % 10))

\* The last w decimal digits of k, zero padded.
RECURSIVE ZeroPad(_, _)
ZeroPad(k, w) ==
    IF w = 0 THEN <<>> ELSE Append(ZeroPad(k \div 10, w - 1), DigitChar(k % 10))

\* The decimal digits of a two-limb natural.
IntDigits(p) ==
    IF p[1] = 0 THEN Digits(p[2]) ELSE Digits(p[1]) \o ZeroPad(p[2], 9)

\* x * 5^k / d as <<integer part, remainder over d>>.
RECURSIVE TimesFive(_, _, _)
TimesFive(x, k, d) ==
    IF k = 0 THEN <<x \div d, x % d>>
    ELSE LET p == TimesFive(x, k - 1, d)
         IN  <<5 * p[1] + (5 * p[2]) \div d, (5 * p[2]) % d>>

\* fnum / 2^q in units of 10^-9, rounded to the nearest unit, ties to even:
\* fnum * 10^9 / 2^q = fnum * 5^9 / 2^(q-9).
FracToNano(fnum, q) ==
    IF q <= 9 THEN fnum * (NsPerSec \div 2^q)
    ELSE LET d == 2^(q - 9)
             p == TimesFive(fnum, 9, d)
         IN  IF 2 * p[2] < d \/ (2 * p[2] = d /\ p[1] % 2 = 0)
             THEN p[1] ELSE p[1] + 1

\* '{:.9f}'.format(x) for a float x: sign, integer digits, '.', nine digits.
FormatFloat(x) ==
    LET f  == FracToNano(x.fnum, x.q)
        ip == IF f = NsPerSec THEN Succ(x.ip) ELSE x.ip
        fr == IF f = NsPerSec THEN 0 ELSE f
    IN  (IF x.neg THEN <<"-">> ELSE <<>>)
        \o IntDigits(ip) \o <<".">> \o ZeroPad(fr, FracDigits)

\* '{:f}'.format(mtime), the default precision: three digits fewer.
Format6f(mtime) ==
    LET t == IF mtime.kind = "int" THEN FormatFloat(IntToFloat(mtime))
             ELSE FormatFloat(mtime)
    IN  SubSeq(t, 1, Len(t) - 3)

\* '{:.9f}'.format(mtime): an int is converted to a float and then formatted.
Format9f(mtime) ==
    IF mtime.kind = "int" THEN FormatFloat(IntToFloat(mtime))
    ELSE FormatFloat(mtime)

-----------------------------------------------------------------------------
(* get_etag_from_file *)

\* Python's None.
PyNone == [kind |-> "NoneType"]

\* An os.stat result.  st_mtime is always there; st_mtime_ns is an attribute
\* only where the interpreter provides it.
StatResult(ns, fl) ==
    IF ns = PyNone THEN [st_mtime |-> fl]
    ELSE [st_mtime_ns |-> ns, st_mtime |-> fl]

\* How a call ends: with a value, or with a raised error.
Returned(v) == [kind |-> "return", value |-> v]
Raised(e) == [kind |-> "raise", error |-> e]
NoResult == [kind |-> "none"]

\* The precedence the wrong way round: st_mtime whenever it is there.
mtime_prefer_float(stat) == stat.st_mtime

\* mtime = getattr(stat, 'st_mtime_ns', None)
\* if mtime is None: mtime = stat.st_mtime
mtime(stat) ==
    LET m == IF "st_mtime_ns" \in DOMAIN stat THEN stat.st_mtime_ns ELSE PyNone
    IN  IF m = PyNone THEN stat.st_mtime ELSE m

\* return '{:.9f}'.format(mtime)
etag_of_stat(stat) == Format9f(mtime(stat))

-----------------------------------------------------------------------------
(* Bounds of the checked instances *)

\* A present-day whole second, where a nanosecond count lies in [2^60, 2^61).
EpochSec == 1500000000

\* A whole second whose nanosecond count is below 2^53 (exact as a float).
SmallSec == 9000000

\* Nanosecond offsets k * NsStep, k in 0..MaxNsIdx; NsStep is a quarter of
\* the float's unit in the last place at EpochSec * 10^9.
NsStep == 2^6
MaxNsIdx == 4

\* st_mtime may lie up to MaxSkew seconds away from st_mtime_ns.
MaxSkew == 1

\* Clock ticks of NsStep nanoseconds.
MaxTick == 4

VARIABLES
    stat,       \* token derivation on given stat results: the two inputs
    etag,       \* ... and the result of get_etag_from_file on each
    platform,   \* sys.platform
    has_ns,     \* whether os.stat results carry st_mtime_ns
    now,        \* the clock, in ticks
    fs,         \* path -> file (its mtime, and whether written data still
                \*   waits for the OS to update the metadata) or Absent
    pc,         \* the owner: the statement of get_etag_from_fileobject next
    buffered,   \* the handle f holds written data not yet flushed
    result,     \* how get_etag_from_fileobject(f) ended
    log,        \* the calls get_etag_from_fileobject(f) made, in order
    fault,      \* the call that failed in it, and its error
    seen,       \* the file that its os.stat saw
    late_write, \* f was written to after the etag was taken
    ext_write,  \* another writer has modified the final path
    rd          \* reader -> its last get_etag_from_file call

vars == <<stat, etag, platform, has_ns, now, fs, pc, buffered, result, log,
          fault, seen, late_write, ext_write, rd>>

tokenVars == <<stat, etag>>
protoVars == <<platform, has_ns, now, fs, pc, buffered, result, log, fault,
               seen, late_write, ext_write, rd>>

-----------------------------------------------------------------------------
(* Token derivation on given stat results *)

Nsecs ==
    {k * NsStep : k \in 0..MaxNsIdx} \cup {NsPerSec \div 2, 123456789, NsPerSec - 1}

\* The timestamps tried: the epoch itself, and sub-second offsets around
\* SmallSec, EpochSec and -EpochSec.
Times ==
    {Timespec(0, 0)}
    \cup {Timespec(s, n) : s \in {SmallSec, EpochSec, -EpochSec}, n \in Nsecs}

\* The stat results tried: with and without st_mtime_ns, st_mtime taken
\* from the same timestamp or from one some seconds later.
StatResults ==
    {StatResult(IF h THEN StMtimeNs(t) ELSE PyNone,
                StMtime(Timespec(t.sec + k, t.nsec))) :
        t \in Times, h \in BOOLEAN, k \in 0..MaxSkew}

Calls == {1, 2}

\* get_etag_from_file(fpath), given what os.stat(fpath) returns.
Derive(i) ==
    /\ etag[i] = NoResult
    /\ etag' = [etag EXCEPT ![i] = Returned(etag_of_stat(stat[i]))]
    /\ UNCHANGED <<stat, protoVars>>

-----------------------------------------------------------------------------
(* The filesystem *)

Paths == {"tmp", "final"}
Readers == {"r1", "r2"}

Absent == [kind |-> "absent"]
File(m, d) == [kind |-> "file", mtime |-> m, dirty |-> d]

\* The time a write is stamped with.
Clock == Timespec(EpochSec, now * NsStep)

\* The stat result of a file on this interpreter.
stat_of(file) ==
    StatResult(IF has_ns THEN StMtimeNs(file.mtime) ELSE PyNone,
               StMtime(file.mtime))

\* os.stat(fpath): raises for a missing path, else the stat result.
os_stat(f, p) ==
    IF f[p] = Absent THEN Raised("ENOENT") ELSE Returned(stat_of(f[p]))

\* What os.stat leaves of the filesystem: a pure read.
FsTouchedByStat(f, p) ==
    IF f[p] = Absent THEN f ELSE [f EXCEPT ![p].mtime = Clock]
FsAfterStat(f, p) == f

\* get_etag_from_file(fpath) without the error path: an unreadable path
\* yields a default token.
get_etag_or_default(f, p) ==
    LET st == os_stat(f, p)
    IN  IF st.kind = "raise" THEN Returned(Format9f(PyInt(FALSE, <<0, 0>>)))
        ELSE Returned(etag_of_stat(st.value))

\* get_etag_from_file(fpath): an error of os.stat propagates.
get_etag_from_file(f, p) ==
    LET st == os_stat(f, p)
    IN  IF st.kind = "raise" THEN st ELSE Returned(etag_of_stat(st.value))

\* Written data reaches the operating system.  Elsewhere than on win32 the
\* mtime is set at once; on win32 the metadata may lag behind.
WriteOut(f, p) ==
    IF f[p] = Absent THEN f
    ELSE IF platform = "win32" THEN [f EXCEPT ![p].dirty = TRUE]
    ELSE [f EXCEPT ![p].mtime = Clock]

\* The operating system brings a file's metadata up to date.
UpdateMetadata(f, p) ==
    IF f[p] # Absent /\ f[p].dirty THEN [f EXCEPT ![p] = File(Clock, FALSE)]
    ELSE f

\* f.flush() left out: the data stays in the handle's buffer.
no_flush(f, buf) == [fs |-> f, buffered |-> buf]

\* f.flush(): the buffered data, if any, is written out.
f_flush(f, buf) ==
    [fs |-> IF buf THEN WriteOut(f, "tmp") ELSE f, buffered |-> FALSE]

\* os.fsync(f.fileno())
os_fsync(f) == UpdateMetadata(f, "tmp")

\* After f.flush() with an error swallowed.
after_flush_swallow(outcome) == IF platform = "win32" THEN "fsync" ELSE "stat"

\* After f.flush() with the platform test left out.
after_flush_no_fsync(outcome) == IF outcome # "ok" THEN "raised" ELSE "stat"

\* After f.flush(): an error propagates; if sys.platform == 'win32' the
\* next statement is os.fsync, else the return statement.
after_flush(outcome) ==
    IF outcome # "ok" THEN "raised"
    ELSE IF platform = "win32" THEN "fsync" ELSE "stat"

\* After os.fsync: an error propagates, else the return statement.
after_fsync(outcome) == IF outcome # "ok" THEN "raised" ELSE "stat"

\* A change of a path makes the readers' earlier results for it stale.
Invalidate(f2) ==
    [r \in Readers |->
        IF rd[r].kind = "call" /\ f2[rd[r].path] # fs[rd[r].path]
        THEN [rd[r] EXCEPT !.stale = TRUE] ELSE rd[r]]

Outcomes == {"ok", "EIO"}
NoFault == [call |-> "none", error |-> "none"]

-----------------------------------------------------------------------------
(* The owner of the temporary file *)

\* The caller writes to the handle before taking the etag.
Write ==
    /\ pc = "flush" /\ ~buffered
    /\ buffered' = TRUE
    /\ UNCHANGED <<tokenVars, platform, has_ns, now, fs, pc, result, log,
                   fault, seen, late_write, ext_write, rd>>

\* get_etag_from_fileobject(f): f.flush()
Flush(outcome) ==
    /\ pc = "flush"
    /\ log' = Append(log, "flush")
    /\ pc' = after_flush(outcome)
    /\ IF outcome = "ok"
       THEN /\ fs' = f_flush(fs, buffered).fs
            /\ buffered' = f_flush(fs, buffered).buffered
            /\ UNCHANGED fault
       ELSE /\ fault' = [call |-> "flush", error |-> outcome]
            /\ UNCHANGED <<fs, buffered>>
    /\ result' = IF pc' = "raised" THEN Raised(outcome) ELSE result
    /\ rd' = Invalidate(fs')
    /\ UNCHANGED <<tokenVars, platform, has_ns, now, seen, late_write,
                   ext_write>>

\* get_etag_from_fileobject(f): os.fsync(f.fileno())
Fsync(outcome) ==
    /\ pc = "fsync"
    /\ log' = Append(log, "fsync")
    /\ pc' = after_fsync(outcome)
    /\ IF outcome = "ok"
       THEN /\ fs' = os_fsync(fs)
            /\ UNCHANGED fault
       ELSE /\ fault' = [call |-> "fsync", error |-> outcome]
            /\ UNCHANGED fs
    /\ result' = IF pc' = "raised" THEN Raised(outcome) ELSE result
    /\ rd' = Invalidate(fs')
    /\ UNCHANGED <<tokenVars, platform, has_ns, now, buffered, seen,
                   late_write, ext_write>>

\* get_etag_from_fileobject(f): return get_etag_from_file(f.name)
Stat ==
    /\ pc = "stat"
    /\ log' = Append(log, "stat")
    /\ result' = get_etag_from_file(fs, "tmp")
    /\ pc' = IF result'.kind = "raise" THEN "raised" ELSE "returned"
    /\ fault' = IF os_stat(fs, "tmp").kind = "raise"
                THEN [call |-> "stat", error |-> os_stat(fs, "tmp").error]
                ELSE fault
    /\ seen' = fs["tmp"]
    /\ fs' = FsAfterStat(fs, "tmp")
    /\ rd' = Invalidate(fs')
    /\ UNCHANGED <<tokenVars, platform, has_ns, now, buffered, late_write,
                   ext_write>>

\* The caller writes to the handle again after taking the etag.
LateWrite ==
    /\ pc = "returned" /\ ~late_write
    /\ buffered' = TRUE
    /\ late_write' = TRUE
    /\ UNCHANGED <<tokenVars, platform, has_ns, now, fs, pc, result, log,
                   fault, seen, ext_write, rd>>

\* The caller closes the handle (what is buffered is written out) and moves
\* the temporary file to the final path; the file keeps its mtime.
Move ==
    /\ pc = "returned"
    /\ LET closed == IF buffered THEN WriteOut(fs, "tmp") ELSE fs
       IN  IF closed["tmp"] = Absent
           THEN /\ pc' = "move_failed"
                /\ fs' = closed
           ELSE /\ pc' = "moved"
                /\ fs' = [closed EXCEPT !["final"] = closed["tmp"],
                                        !["tmp"] = Absent]
    /\ buffered' = FALSE
    /\ rd' = Invalidate(fs')
    /\ UNCHANGED <<tokenVars, platform, has_ns, now, result, log, fault,
                   seen, late_write, ext_write>>

-----------------------------------------------------------------------------
(* The environment *)

\* Time passes.
Tick ==
    /\ now < MaxTick
    /\ now' = now + 1
    /\ UNCHANGED <<tokenVars, platform, has_ns, fs, pc, buffered, result,
                   log, fault, seen, late_write, ext_write, rd>>

\* The operating system updates lagging metadata on its own.
Writeback(p) ==
    /\ fs[p] # Absent /\ fs[p].dirty
    /\ fs' = UpdateMetadata(fs, p)
    /\ rd' = Invalidate(fs')
    /\ UNCHANGED <<tokenVars, platform, has_ns, now, pc, buffered, result,
                   log, fault, seen, late_write, ext_write>>

\* Another writer modifies the file at the final path.
ExternalWrite ==
    /\ fs["final"] # Absent
    /\ fs' = [fs EXCEPT !["final"] = File(Clock, FALSE)]
    /\ ext_write' = TRUE
    /\ rd' = Invalidate(fs')
    /\ UNCHANGED <<tokenVars, platform, has_ns, now, pc, buffered, result,
                   log, fault, seen, late_write>>

\* The temporary file is removed under the owner.
ExternalUnlink ==
    /\ fs["tmp"] # Absent
    /\ fs' = [fs EXCEPT !["tmp"] = Absent]
    /\ rd' = Invalidate(fs')
    /\ UNCHANGED <<tokenVars, platform, has_ns, now, pc, buffered, result,
                   log, fault, seen, late_write, ext_write>>

\* Any thread calls get_etag_from_file(p).
Read(r, p) ==
    /\ rd' = [rd EXCEPT ![r] =
                [kind |-> "call", path |-> p, missing |-> fs[p] = Absent,
                 result |-> get_etag_from_file(fs, p), stale |-> FALSE]]
    /\ fs' = FsAfterStat(fs, p)
    /\ UNCHANGED <<tokenVars, platform, has_ns, now, pc, buffered, result,
                   log, fault, seen, late_write, ext_write>>

-----------------------------------------------------------------------------
(* Specifications *)

ProtoStart ==
    /\ now = 0
    /\ fs = [p \in Paths |->
                IF p = "tmp" THEN File(Timespec(EpochSec, 0), FALSE) ELSE Absent]
    /\ pc = "flush"
    /\ buffered = FALSE
    /\ result = NoResult
    /\ log = <<>>
    /\ fault = NoFault
    /\ seen = Absent
    /\ late_write = FALSE
    /\ ext_write = FALSE
    /\ rd = [r \in Readers |-> NoResult]

TokenStart ==
    /\ stat = [i \in Calls |-> StatResult(PyNone, StMtime(Timespec(0, 0)))]
    /\ etag = [i \in Calls |-> NoResult]

\* The temporary file has just been created; the handle is open and empty.
Init ==
    /\ platform \in {"linux", "win32"}
    /\ has_ns \in BOOLEAN
    /\ ProtoStart
    /\ TokenStart

Next ==
    \/ Write
    \/ \E o \in Outcomes : Flush(o)
    \/ \E o \in Outcomes : Fsync(o)
    \/ Stat
    \/ LateWrite
    \/ Move
    \/ Tick
    \/ \E p \in Paths : Writeback(p)
    \/ ExternalWrite
    \/ ExternalUnlink
    \/ \E r \in Readers, p \in Paths : Read(r, p)

Spec == Init /\ [][Next]_vars

\* Token derivation alone, on every pair of stat results tried.
TokenInit ==
    /\ stat \in [Calls -> StatResults]
    /\ etag = [i \in Calls |-> NoResult]
    /\ platform = "linux"
    /\ has_ns = TRUE
    /\ ProtoStart

TokenNext == \E i \in Calls : Derive(i)

TokenSpec == TokenInit /\ [][TokenNext]_vars

-----------------------------------------------------------------------------
(* Properties of token derivation (TokenSpec) *)

HasNs(i) == "st_mtime_ns" \in DOMAIN stat[i]
Done(i) == etag[i].kind = "return"

IsDigit(c) == c \in {"0", "1", "2", "3", "4", "5", "6", "7", "8", "9"}

\* <one or more digits> '.' <exactly nine digits>
Unsigned(tok) ==
    /\ Len(tok) >= FracDigits + 2
    /\ tok[Len(tok) - FracDigits] = "."
    /\ \A k \in 1..Len(tok) : k # Len(tok) - FracDigits => IsDigit(tok[k])

\* The float f is exactly the instant of the nanosecond count n.
SameInstant(n, f) ==
    /\ n.neg = f.neg
    /\ f.ip = Limbs(n.mag[1])
    /\ (f.q <= 9 \/ TimesFive(f.fnum, 9, 2^(f.q - 9))[2] = 0)
    /\ FracToNano(f.fnum, f.q) = n.mag[2]

\* C2 (as claimed): a stat result with st_mtime_ns and one with only
\* st_mtime, both of the same instant, yield the same token.
C2_RepresentationEquivalence ==
    \A i, j \in Calls :
        ( /\ Done(i) /\ Done(j) /\ HasNs(i) /\ ~HasNs(j)
          /\ SameInstant(stat[i].st_mtime_ns, stat[j].st_mtime) )
        => etag[i] = etag[j]

\* C3 (as claimed): stat results whose modification times differ, in the
\* representation the stat result reports, yield different tokens.
C3_ChangeDetection ==
    \A i, j \in Calls :
        (Done(i) /\ Done(j)) =>
            /\ ( /\ HasNs(i) /\ HasNs(j)
                 /\ stat[i].st_mtime_ns # stat[j].st_mtime_ns )
               => etag[i] # etag[j]
            /\ ( /\ ~HasNs(i) /\ ~HasNs(j)
                 /\ stat[i].st_mtime # stat[j].st_mtime )
               => etag[i] # etag[j]

\* C5 (as claimed): every token is <digits> '.' <nine digits>, unsigned.
C5_FormatUnsigned ==
    \A i \in Calls : Done(i) => Unsigned(etag[i].value)

\* C5 (amended): every token is <digits> '.' <nine digits>, preceded by a
\* '-' exactly when the modification time lies before the epoch.
C5_FormatSigned ==
    \A i \in Calls :
        Done(i) =>
            IF mtime(stat[i]).neg
            THEN etag[i].value[1] = "-" /\ Unsigned(Tail(etag[i].value))
            ELSE Unsigned(etag[i].value)

\* Tokens of both representations and of both signs have been derived.
C5_Witness ==
    \E i, j \in Calls :
        /\ Done(i) /\ Done(j) /\ HasNs(i) /\ ~HasNs(j)
        /\ mtime(stat[i]).neg /\ ~mtime(stat[j]).neg
        /\ stat[j].st_mtime.fnum # 0

\* C9: the token is that of st_mtime_ns whenever the stat result has it,
\* whatever st_mtime says, and that of st_mtime only otherwise: stat results
\* that agree on the field used yield the same token.
C9_SingleRepresentation ==
    \A i, j \in Calls :
        (Done(i) /\ Done(j)) =>
            /\ HasNs(i) => etag[i].value = Format9f(stat[i].st_mtime_ns)
            /\ ~HasNs(i) => etag[i].value = Format9f(stat[i].st_mtime)
            /\ ( /\ HasNs(i) /\ HasNs(j)
                 /\ stat[i].st_mtime_ns = stat[j].st_mtime_ns )
               => etag[i] = etag[j]
            /\ ( /\ ~HasNs(i) /\ ~HasNs(j)
                 /\ stat[i].st_mtime = stat[j].st_mtime )
               => etag[i] = etag[j]

\* Two stat results with the same st_mtime_ns and different st_mtime.
C9_Witness ==
    \E i, j \in Calls :
        /\ Done(i) /\ Done(j) /\ HasNs(i) /\ HasNs(j)
        /\ stat[i].st_mtime_ns = stat[j].st_mtime_ns
        /\ stat[i].st_mtime # stat[j].st_mtime

-----------------------------------------------------------------------------
(* Properties of the capture protocol (Spec) *)

Fresh(r) == rd[r].kind = "call" /\ ~rd[r].stale

\* C1: the token taken from the temporary file's handle is the token of the
\* final path after the move, as long as nothing was written in between.
C1_MoveInvariance ==
    (pc = "moved" /\ ~late_write /\ ~ext_write)
    => get_etag_from_file(fs, "final") = result

\* The owner wrote, some time passed, the etag was taken, the file moved and
\* a reader derived the token of the final path.
C1_Witness ==
    /\ pc = "moved" /\ ~late_write /\ ~ext_write
    /\ fs["final"].mtime # Timespec(EpochSec, 0)
    /\ \E r \in Readers :
        Fresh(r) /\ rd[r].path = "final" /\ rd[r].result = result

\* C4 (as claimed): the token is taken before the final path holds the
\* staged file, and once another writer has changed the modification time
\* the final path reports, the token of the final path differs from it.
C4_RaceClosure ==
    /\ pc = "moved" => result.kind = "return"
    /\ ( /\ pc = "moved" /\ ext_write
         /\ mtime(stat_of(fs["final"])) # mtime(stat_of(seen)) )
       => get_etag_from_file(fs, "final") # result

C6_SameToken ==
    \A r1, r2 \in Readers :
        (Fresh(r1) /\ Fresh(r2) /\ rd[r1].path = rd[r2].path)
        => rd[r1].result = rd[r2].result

\* C6: calls of get_etag_from_file on a path that has not changed since
\* all return the same token, and no call changes the filesystem.
C6_Determinism ==
    /\ []C6_SameToken
    /\ [][(\E r \in Readers, p \in Paths : Read(r, p)) => fs' = fs]_vars

\* Two threads hold a token of the moved file, unchanged since.
C6_Witness ==
    /\ pc = "moved" /\ now > 0
    /\ \A r \in Readers :
        Fresh(r) /\ rd[r].path = "final" /\ rd[r].result.kind = "return"

\* C7: get_etag_from_file on a missing path ends in os.stat's error and
\* returns no token.
C7_MissingFile ==
    \A r \in Readers :
        (rd[r].kind = "call" /\ rd[r].missing)
        => rd[r].result = os_stat([p \in Paths |-> Absent], rd[r].path)

\* A thread has called get_etag_from_file on a missing path.
C7_Witness ==
    \E r \in Readers :
        rd[r].kind = "call" /\ rd[r].missing /\ rd[r].result.kind = "raise"

Count(c) == Cardinality({k \in 1..Len(log) : log[k] = c})

\* C8: a failure of flush, fsync or stat ends get_etag_from_fileobject at
\* once in that error: no token, no later call, and no call made twice.
C8_FailurePropagation ==
    /\ \A c \in {"flush", "fsync", "stat"} : Count(c) <= 1
    /\ fault # NoFault =>
        /\ pc = "raised"
        /\ result = Raised(fault.error)
        /\ log[Len(log)] = fault.call
    /\ pc = "raised" => fault # NoFault

\* os.fsync has failed on win32.
C8_Witness ==
    pc = "raised" /\ fault.call = "fsync" /\ log = <<"flush", "fsync">>

\* C10: a successful get_etag_from_fileobject has called flush, then (on
\* win32 only, once) fsync, then stat; the stat saw the file with nothing
\* of the handle's data outstanding, and the token is that file's.
C10_DurabilityOrdering ==
    /\ platform # "win32" => Count("fsync") = 0
    /\ result.kind = "return" =>
        /\ log = IF platform = "win32" THEN <<"flush", "fsync", "stat">>
                 ELSE <<"flush", "stat">>
        /\ ~seen.dirty
        /\ result = Returned(etag_of_stat(stat_of(seen)))

\* On win32 written data was flushed, synced and then stat'ed.
C10_Witness ==
    /\ result.kind = "return" /\ platform = "win32"
    /\ seen.mtime # Timespec(EpochSec, 0)

=============================================================================
